---- MODULE Spec2Model ----
(***************************************************************************)
(* Model of the student-loan planner: person.py (Person), plans.py (Plan,  *)
(* FundingSource, find_optimal_plan, Plan.amortization_schedule) and the   *)
(* replay loop of main.py.                                                 *)
(*                                                                         *)
(* Numbers.  The program computes in binary floating point.  The model     *)
(* computes with exact rationals <<n, d>> (d > 0, lowest terms), i.e. with *)
(* the real-number meaning of every expression of the source.  The inputs  *)
(* are chosen so that all of these rationals fit TLC's 32-bit integers:    *)
(* monthly rates 1 and 2 (annual rates 12 and 24), terms of one and two    *)
(* years, and principals that are multiples of (2^24 - 1) / 2^12.          *)
(*                                                                         *)
(* Dictionaries.  Plan and FundingSource are dataclasses(eq=True,          *)
(* frozen=True) without fields, so two instances are equal, and hash       *)
(* alike, exactly when they have the same class.  A Python dict keeps the  *)
(* key object of the first insertion and the value of the last one; the    *)
(* model's dictionaries (sequences of [k, v] entries) do the same.         *)
(***************************************************************************)
EXTENDS Integers, Sequences, FiniteSets, TLC

VARIABLES
  person,        \* the Person handed to find_optimal_plan
  sources,       \* the list of offered funding sources
  pc,            \* "start", "solved", "noplan", "raised", "replay", "replayed"
  error,         \* the exception a raising call ends with, "none" otherwise
  result,        \* the returned allocation: per year, a list of <<amt, plan, src>>
  overpayments,  \* the returned payment traces, keyed by (source, plan)
  payment,       \* the solved values of the payment variables the dict holds
  objective,     \* the solved value of the objective
  prev,          \* the outcome of the previous call with a smaller max_dti
  call,          \* the arguments of the amortization_schedule calls so far
  schedule       \* the schedules those calls returned

vars == <<person, sources, pc, error, result, overpayments, payment, objective,
          prev, call, schedule>>

----------------------------------------------------------------------------
(* Exact rational arithmetic *)

\* Euclid's algorithm, two steps at a time
RECURSIVE GCD(_, _)
GCD(a, b) ==
  IF b = 0 THEN a
  ELSE IF a % b = 0 THEN b
  ELSE GCD(a % b, b % (a % b))

Abs(x) == IF x < 0 THEN -x ELSE x

\* n / d with the common factor g taken out and the sign in the numerator
Reduced(n, d, g) ==
  IF d < 0 THEN <<-(n \div g), -(d \div g)>> ELSE <<n \div g, d \div g>>

Norm(n, d) == Reduced(n, d, GCD(Abs(n), Abs(d)))

I(n) == <<n, 1>>

Zero == <<0, 1>>

One == <<1, 1>>

\* a + b over the least common denominator, g being the GCD of the two
AddOver(a, b, g) ==
  Norm(a[1] * (b[2] \div g) + b[1] * (a[2] \div g), (a[2] \div g) * b[2])

RAdd(a, b) ==
  IF b[1] = 0 THEN a
  ELSE IF a[1] = 0 THEN b
  ELSE AddOver(a, b, GCD(a[2], b[2]))

RNeg(a) == <<-a[1], a[2]>>

RSub(a, b) == RAdd(a, RNeg(b))

\* a * b, the common factors g1 of a[1], b[2] and g2 of b[1], a[2] taken out
MulOver(a, b, g1, g2) ==
  <<(a[1] \div g1) * (b[1] \div g2), (a[2] \div g2) * (b[2] \div g1)>>

RMul(a, b) ==
  IF a[1] = 0 \/ b[1] = 0 THEN Zero
  ELSE MulOver(a, b, GCD(Abs(a[1]), b[2]), GCD(Abs(b[1]), a[2]))

\* a / b for b # 0
RDiv(a, b) == RMul(a, Norm(b[2], b[1]))

\* a <= b: by the integer parts when they differ, else by the fractions
RLeq(a, b) ==
  IF a[1] \div a[2] # b[1] \div b[2] THEN a[1] \div a[2] < b[1] \div b[2]
  ELSE (a[1] % a[2]) * (b[2] \div GCD(a[2], b[2]))
       <= (b[1] % b[2]) * (a[2] \div GCD(a[2], b[2]))

RLt(a, b) == ~RLeq(b, a)

RMin(a, b) == IF RLeq(a, b) THEN a ELSE b

RMax(a, b) == IF RLeq(a, b) THEN b ELSE a

\* a ** k for k >= 0, as a ** (k div 2) * a ** (k - k div 2)
RECURSIVE RPowNat(_, _)
RPowNat(a, k) ==
  IF k = 0 THEN One
  ELSE IF k = 1 THEN a
  ELSE RMul(RPowNat(a, k \div 2), RPowNat(a, k - k \div 2))

\* a ** k for an integer k (a # 0 when k < 0)
RPow(a, k) == IF k >= 0 THEN RPowNat(a, k) ELSE RDiv(One, RPowNat(a, -k))

\* a function as the table of its values: an element is computed once
Table(f) == f @@ <<>>

\* s[lo] + ... + s[hi], summed by halves
RECURSIVE RSumRange(_, _, _)
RSumRange(s, lo, hi) ==
  IF lo > hi THEN Zero
  ELSE IF lo = hi THEN s[lo]
  ELSE RAdd(RSumRange(s, (lo + hi) \div 2 + 1, hi),
            RSumRange(s, lo, (lo + hi) \div 2))

\* sum(s) of a sequence of rationals
RSumSeq(s) == RSumRange(Table(s), 1, Len(s))

\* floor(a)
RFloor(a) == a[1] \div a[2]

\* the integer nearest to x, ties to the even one
RoundHalfEven(x) ==
  IF 2 * (x[1] % x[2]) < x[2] THEN x[1] \div x[2]
  ELSE IF 2 * (x[1] % x[2]) > x[2] THEN (x[1] \div x[2]) + 1
  ELSE (x[1] \div x[2]) + ((x[1] \div x[2]) % 2)

\* Python's round(a, 2), in cents
RoundCents(a) == RoundHalfEven(RMul(a, I(100)))

----------------------------------------------------------------------------
(* Program constants *)

MonthsPerYear == 12

\* poverty_guideline and the 1.5 multiplier of discretionary_income
PovertyGuideline == 13850

\* result threshold 1e-3 and replay epsilon .01
AmtThreshold == <<1, 1000>>

Epsilon == <<1, 100>>

\* the big-M constant 1e6 of the slack bounds
BigM == 1000000

\* FundingSource.limit default 1e9
NoLimit == 1000000000

\* the rates and fees plans.py imports by name (lines 4-5); their values are
\* those of loans.py lines 9-13
FEDERAL_RATE_SUBSIDIZED == <<653, 10000>>

FEDERAL_RATE_UNSUBSIDIZED == <<653, 10000>>

FEDERAL_ORIG_FEE == <<1057, 100000>>

PLUS_UNSUB_RATE == <<447, 5000>>

PLUS_ORIG_FEE == <<1057, 25000>>

----------------------------------------------------------------------------
(* Bounds of the model *)

\* the borrow variables are tried at the fractions k/d of the need, d <= Parts
Parts == 2

----------------------------------------------------------------------------
(* person.py *)

\* existing_loans: the default [] of the dataclass, or main.py's {0: loans};
\* a loan is the tuple (balance, plan, source) of main.py line 163
NoLoans == [form |-> "list", loans |-> <<>>]

ByYear(loans) == [form |-> "dict", loans |-> loans]

\* Person(...) with the defaults of the dataclass.  The class has no field
\* minimum_payment_only: the attribute exists once a caller has set it.
Person(subsidized_loan_eligible, starting_income, annual_personal_contribution, annual_attendance_cost, graduation_time, max_dti, existing_loans) ==
  [family_income |-> Zero,
   subsidized_loan_eligible |-> subsidized_loan_eligible,
   starting_income |-> starting_income,
   annual_personal_contribution |-> annual_personal_contribution,
   annual_attendance_cost |-> annual_attendance_cost,
   graduation_time |-> graduation_time,
   income_appreciation |-> <<3, 100>>,
   discretionary_factor |-> <<1, 10>>,
   min_dti |-> Zero,
   max_dti |-> max_dti,
   payoff_min_length |-> 0,
   payoff_max_length |-> 30,
   existing_loans |-> existing_loans,
   has_minimum_payment_only |-> FALSE,
   minimum_payment_only |-> FALSE]

\* person.minimum_payment_only = flag
SetMinimumPaymentOnly(p, flag) ==
  [p EXCEPT !.has_minimum_payment_only = TRUE, !.minimum_payment_only = flag]

\* Person.borrowed_amounts
borrowed_amounts(p) ==
  LET need == RSub(p.annual_attendance_cost, p.annual_personal_contribution)
  IN  Table([y \in 1..p.graduation_time |-> need])

\* Person.income_at_year
income_at_year(p, year) ==
  RMul(p.starting_income, RPow(RAdd(One, p.income_appreciation), year))

\* Person.discretionary_income
discretionary_income(p, year) ==
  RMax(Zero, RSub(income_at_year(p, year), RMul(<<3, 2>>, I(PovertyGuideline))))

----------------------------------------------------------------------------
(* plans.py: Plan and its subclasses.  A plan object is a record; step_years *)
(* and alpha are read by GraduatedPlan only.                                 *)

Plan(cls, annual_rate, term_years) ==
  [cls |-> cls, annual_rate |-> annual_rate, term_years |-> term_years,
   step_years |-> 2, alpha |-> <<3, 2>>]

StandardPlan(annual_rate, term_years) == Plan("StandardPlan", annual_rate, term_years)

GraduatedPlan(annual_rate) == Plan("GraduatedPlan", annual_rate, 10)

\* GraduatedPlan(annual_rate, term_years, step_years, alpha)
GraduatedPlanOf(annual_rate, term_years, step_years, alpha) ==
  [Plan("GraduatedPlan", annual_rate, term_years) EXCEPT
     !.step_years = step_years, !.alpha = alpha]

ExtendedPlan(annual_rate) == Plan("ExtendedPlan", annual_rate, 25)

PAYEPlan(rate) == Plan("PAYEPlan", rate, 20)

REPAYEPlan(rate) == Plan("REPAYEPlan", rate, 20)

SAVEPlan(rate) == Plan("SAVEPlan", rate, 20)

ICRPlan(rate) == Plan("ICRPlan", rate, 25)

\* the generated __eq__ of the field-less frozen dataclass Plan
PlanEq(p, q) == p.cls = q.cls

\* the monthly rate r = annual_rate / 12 and the number of months n
MonthlyRate(plan) == RDiv(plan.annual_rate, I(MonthsPerYear))

TermMonths(plan) == plan.term_years * MonthsPerYear

\* Plan._m of the base class: the annuity factor
Annuity(r, g) == RDiv(RMul(r, g), RSub(g, One))

\* In double precision (1 + r) ** n - 1 is (1 + r) ** n once the power is
\* past 2 ** 54, and (r * g) / g is r for the monthly rates 1 and 2 of this
\* model: over ten years or more at a monthly rate of 1 or more _m returns r.
Saturates(annual_rate, term_years) ==
  /\ term_years >= 10
  /\ RLeq(I(MonthsPerYear), annual_rate)

StandardM(annual_rate, term_years) ==
  IF Saturates(annual_rate, term_years)
  THEN RDiv(annual_rate, I(MonthsPerYear))
  ELSE Annuity(RDiv(annual_rate, I(MonthsPerYear)),
               RPow(RAdd(One, RDiv(annual_rate, I(MonthsPerYear))),
                    term_years * MonthsPerYear))

\* the base class's _m divides by (1 + r) ** n - 1, which is 0 exactly when
\* r = 0 or n = 0 (rates are not negative)
StandardMRaises(annual_rate, term_years) == annual_rate[1] = 0 \/ term_years = 0

\* GraduatedPlan._m: pv, the sum over the months 0..n-1
GraduatedPV(plan) ==
  RSumSeq([t \in 1..TermMonths(plan) |->
             RDiv(RPow(plan.alpha, (t - 1) \div (plan.step_years * MonthsPerYear)),
                  RPow(RAdd(One, MonthlyRate(plan)), t - 1))])

\* the repayment year the income-driven plans read: (month - 1) // 12
IdrYear(month) == (month - 1) \div MonthsPerYear

PlanM(plan, month, p) ==
  CASE plan.cls \in {"StandardPlan", "ExtendedPlan"} ->
         StandardM(plan.annual_rate, plan.term_years)
    [] plan.cls = "GraduatedPlan" ->
         RMul(RDiv(One, GraduatedPV(plan)),
              RPow(plan.alpha, month \div (plan.step_years * MonthsPerYear)))
    [] plan.cls \in {"PAYEPlan", "REPAYEPlan"} -> Zero
    [] plan.cls = "SAVEPlan" ->
         RMax(RDiv(RMul(discretionary_income(p, IdrYear(month)), <<1, 20>>),
                   I(MonthsPerYear)), Zero)
    [] plan.cls = "ICRPlan" ->
         RMin(RDiv(RMul(discretionary_income(p, IdrYear(month)), <<1, 5>>),
                   I(MonthsPerYear)),
              StandardM(plan.annual_rate, 12))

PlanB(plan, month, p) ==
  IF plan.cls \in {"PAYEPlan", "REPAYEPlan", "SAVEPlan"}
  THEN RMax(RDiv(RMul(discretionary_income(p, IdrYear(month)), p.discretionary_factor),
                 I(MonthsPerYear)), Zero)
  ELSE Zero

\* ZeroDivisionError inside _m
PlanMRaises(plan) ==
  CASE plan.cls \in {"StandardPlan", "ExtendedPlan"} ->
         StandardMRaises(plan.annual_rate, plan.term_years)
    [] plan.cls = "GraduatedPlan" -> plan.term_years = 0
    [] plan.cls = "ICRPlan" -> StandardMRaises(plan.annual_rate, 12)
    [] OTHER -> FALSE

\* Plan.monthly_payment
monthly_payment(plan, balance, month, p) ==
  RAdd(RMul(PlanM(plan, month, p), balance), PlanB(plan, month, p))

----------------------------------------------------------------------------
(* plans.py: FundingSource and its subclasses *)

Source(cls, name, rate, fee, max_years, options, subsidized) ==
  [cls |-> cls, name |-> name, rate |-> rate, fee |-> fee,
   max_years |-> max_years, options |-> options, subsidized |-> subsidized]

DirectSubsidizedFederal ==
  Source("DirectSubsidizedFederal", "DirectSubsidizedFederal",
         FEDERAL_RATE_SUBSIDIZED, FEDERAL_ORIG_FEE, 0, <<>>, TRUE)

DirectUnsubsidizedFederal ==
  Source("DirectUnsubsidizedFederal", "DirectUnsubsidizedFederal",
         FEDERAL_RATE_UNSUBSIDIZED, FEDERAL_ORIG_FEE, 0, <<>>, FALSE)

PlusFederal ==
  Source("PlusFederal", "PlusFederal", PLUS_UNSUB_RATE, PLUS_ORIG_FEE, 0, <<>>, FALSE)

PrivateLoanFactory(provider, annual_rate, origination_fee, max_years) ==
  Source("PrivateLoanFactory", provider, annual_rate, origination_fee, max_years,
         <<>>, FALSE)

UserDefinedSource(name, plan, rate, subsidized) ==
  Source("UserDefinedSource", name, rate, Zero, 0, <<plan>>, subsidized)

\* the generated __eq__ of the field-less frozen dataclass FundingSource
SourceEq(s, t) == s.cls = t.cls

\* limits that leave out the eligibility of the borrower
limitForAnyone(s, year, p) ==
  CASE s.cls = "DirectSubsidizedFederal" ->
         I(3500 + (IF year < 2 THEN year ELSE 2) * 1000)
    [] s.cls = "DirectUnsubsidizedFederal" -> I(2000)
    [] OTHER -> I(NoLimit)

\* FundingSource.limit and its overrides
limit(s, year, p) ==
  CASE s.cls = "DirectSubsidizedFederal" ->
         I((3500 + (IF year < 2 THEN year ELSE 2) * 1000)
           * (IF p.subsidized_loan_eligible THEN 1 ELSE 0))
    [] s.cls = "DirectUnsubsidizedFederal" -> I(2000)
    [] OTHER -> I(NoLimit)

\* FundingSource._principal_m and its overrides
principal_m(s, year, p) ==
  CASE s.cls = "DirectSubsidizedFederal" -> RAdd(One, FEDERAL_ORIG_FEE)
    [] s.cls = "DirectUnsubsidizedFederal" ->
         RMul(RAdd(One, FEDERAL_ORIG_FEE),
              RPow(RAdd(One, RDiv(FEDERAL_RATE_UNSUBSIDIZED, I(MonthsPerYear))),
                   (p.graduation_time - year) * MonthsPerYear))
    [] s.cls \in {"PlusFederal", "PrivateLoanFactory"} ->
         RMul(RAdd(One, s.fee),
              RPow(RAdd(One, RDiv(s.rate, I(MonthsPerYear))),
                   (p.graduation_time - year) * MonthsPerYear))
    [] s.cls = "UserDefinedSource" ->
         IF s.subsidized THEN One
         ELSE RPow(RAdd(One, RDiv(s.rate, I(MonthsPerYear))),
                   (p.graduation_time - year) * MonthsPerYear)

\* a principal in which a UserDefinedSource has a _principal_b of its own
principalWithCost(s, borrow, year, p) ==
  RAdd(RMul(principal_m(s, year, p), borrow),
       IF s.cls = "UserDefinedSource" THEN <<16777215, 4096>> ELSE Zero)

\* FundingSource.principal (_principal_b is 0 in every class)
principal(s, borrow, year, p) == RAdd(RMul(principal_m(s, year, p), borrow), Zero)

_federal_plans(rate) ==
  <<StandardPlan(rate, 10), GraduatedPlan(rate), ExtendedPlan(rate),
    REPAYEPlan(rate), ICRPlan(rate)>>

\* plan_options of every source class; PlusFederal's raises NameError
PlanOptionsRaises(s) == s.cls = "PlusFederal"

plan_options(s, p) ==
  CASE s.cls = "DirectSubsidizedFederal" -> _federal_plans(FEDERAL_RATE_SUBSIDIZED)
    [] s.cls = "DirectUnsubsidizedFederal" -> _federal_plans(FEDERAL_RATE_UNSUBSIDIZED)
    [] s.cls = "PrivateLoanFactory" -> <<StandardPlan(s.rate, s.max_years)>>
    [] s.cls = "UserDefinedSource" -> s.options
    [] OTHER -> <<>>

----------------------------------------------------------------------------
(* Python dictionaries keyed by (year or month, source, plan).  A dictionary *)
(* is given by the sequence of its insertions [k, v]: the value of a key is  *)
(* that of the last insertion with an equal key, the key object is that of   *)
(* the first, and iteration follows the first insertions.                    *)

Key(t, src, plan) == [t |-> t, src |-> src, plan |-> plan]

KeyEq(a, b) == a.t = b.t /\ SourceEq(a.src, b.src) /\ PlanEq(a.plan, b.plan)

SetMax(S) == CHOOSE x \in S : \A y \in S : y <= x

SetMin(S) == CHOOSE x \in S : \A y \in S : x <= y

Positions(puts, k) == {i \in 1..Len(puts) : KeyEq(puts[i].k, k)}

HasKey(puts, k) == Positions(puts, k) # {}

\* d[k]
DictGet(puts, k) == puts[SetMax(Positions(puts, k))].v

\* the position of the insertion that created the entry of k
KeyPos(puts, k) == SetMin(Positions(puts, k))

\* the positions of the first insertions, in order: the entries of the dict
DictKeys(puts) ==
  LET first(i) == \A j \in 1..(i - 1) : ~KeyEq(puts[j].k, puts[i].k)
  IN  SelectSeq([i \in 1..Len(puts) |-> i], first)

RECURSIVE Concat(_)
Concat(ss) == IF ss = <<>> THEN <<>> ELSE ss[1] \o Concat(Tail(ss))

\* the index of x in the sequence s
IndexOf(s, x) == CHOOSE i \in 1..Len(s) : s[i] = x

----------------------------------------------------------------------------
(* find_optimal_plan: the variables the model builder creates.  The state   *)
(* of a call is a record c that the lines of the function extend in turn.  *)

\* known_balances = {(plan, src): balance for ... in person.existing_loans[0]}
KnownPuts(p) ==
  Table([i \in 1..Len(p.existing_loans.loans) |->
           [k |-> Key(0, p.existing_loans.loans[i].src,
                      p.existing_loans.loans[i].plan),
            v |-> p.existing_loans.loans[i].balance]])

\* known_balances.items(): key objects of the first insertion, last balance
KnownItems(puts, keys) ==
  Table([i \in 1..Len(keys) |->
           [src |-> puts[keys[i]].k.src, plan |-> puts[keys[i]].k.plan,
            balance |-> DictGet(puts, puts[keys[i]].k)]])

KnownOf(puts) == KnownItems(puts, DictKeys(puts))

KnownBalances(p) == KnownOf(KnownPuts(p))

\* the arguments, known_balances (line 314) and borrowed_amounts()
Call(p, S) ==
  [p |-> p, S |-> S, KB |-> KnownBalances(p), need |-> borrowed_amounts(p)]

\* sources + known_balance_sources
AllSources(c) == c.S \o [i \in 1..Len(c.KB) |-> c.KB[i].src]

WithSources(c) == c @@ [SS |-> AllSources(c)]

\* source.plan_options(person) of every one of them
WithOptions(c) ==
  c @@ [opts |-> Table([j \in 1..Len(c.SS) |-> plan_options(c.SS[j], c.p)])]

\* borrowed_from / used: one insertion per borrow variable of the offered
\* sources (lines 325-333)
SourcePuts(c, year) ==
  Concat([j \in 1..Len(c.S) |->
            [pi \in 1..Len(c.opts[j]) |->
               [k |-> Key(year, c.S[j], c.opts[j][pi]),
                v |-> [origin |-> "source", year |-> year,
                       ub |-> limit(c.S[j], year, c.p), fixed |-> Zero]]]])

\* and per pre-existing loan (lines 335-344)
KnownYearPuts(c, year) ==
  [i \in 1..Len(c.KB) |->
     [k |-> Key(year, c.KB[i].src, c.KB[i].plan),
      v |-> [origin |-> "known", year |-> year, ub |-> c.KB[i].balance,
             fixed |-> IF year = 0 THEN c.KB[i].balance ELSE Zero]]]

\* in creation order
BorrowPuts(c) ==
  Concat([y \in 1..c.p.graduation_time |->
            SourcePuts(c, y - 1) \o KnownYearPuts(c, y - 1)])

WithBorrows(c) == c @@ [BP |-> BorrowPuts(c)]

WithBorrowKeys(c) == c @@ [BK |-> DictKeys(c.BP)]

\* active_plan / plan_balance / the payment families: one insertion per
\* (source, plan) of sources + known_balance_sources
PairPuts(c) ==
  Concat([j \in 1..Len(c.SS) |->
            [pi \in 1..Len(c.opts[j]) |->
               [k |-> Key(0, c.SS[j], c.opts[j][pi]), v |-> j]]])

\* months = max(plan.term_years ...) * 12, over the offered sources only
\* (0 stands for the max() of no plan at all, which raises)
Months(c) ==
  SetMax(UNION {{c.opts[j][pi].term_years : pi \in 1..Len(c.opts[j])} :
                  j \in 1..Len(c.S)} \cup {0})
  * MonthsPerYear

WithPairs(c) ==
  c @@ [PP |-> PairPuts(c), months |-> Months(c),
        maxOptions |-> SetMax({Len(c.opts[j]) : j \in 1..Len(c.S)} \cup {0})]

\* the longest term, in months, of any payment family
MaxTerm(pp) == SetMax({TermMonths(pp[q].k.plan) : q \in 1..Len(pp)} \cup {0})

WithPairKeys(c) == c @@ [PK |-> DictKeys(c.PP), maxT |-> MaxTerm(c.PP)]

\* the dictionaries of a call
Dicts(p, S) ==
  WithPairKeys(WithPairs(WithBorrowKeys(WithBorrows(WithOptions(WithSources(
    Call(p, S)))))))

----------------------------------------------------------------------------
(* find_optimal_plan: the exceptions raised while the model is built *)

\* the families whose monthly loop (lines 377-416) raises
Raising(d) ==
  {q \in 1..Len(d.PP) :
     \/ TermMonths(d.PP[q].k.plan) = 0
     \/ PlanMRaises(d.PP[q].k.plan)
     \/ ~d.p.has_minimum_payment_only}

\* what the first of them raises: balance[(0, s, plan)] is read before the
\* loop body runs, _m before the attribute
RaisedBy(d, q) ==
  IF TermMonths(d.PP[q].k.plan) = 0 THEN "KeyError"
  ELSE IF PlanMRaises(d.PP[q].k.plan) THEN "ZeroDivisionError"
  ELSE "AttributeError"

BuildError(d) ==
  IF d.p.existing_loans.form = "list" THEN "IndexError"
  ELSE IF \E j \in 1..Len(d.S) : PlanOptionsRaises(d.S[j]) THEN "NameError"
  ELSE IF \A j \in 1..Len(d.S) : d.opts[j] = <<>> THEN "ValueError"
  ELSE IF \E j \in 1..Len(d.SS) : PlanOptionsRaises(d.SS[j]) THEN "NameError"
  ELSE IF \E j \in 1..Len(d.SS) : \E pi \in 1..Len(d.opts[j]) :
            \E y \in 0..(d.p.graduation_time - 1) :
               ~HasKey(d.BP, Key(y, d.SS[j], d.opts[j][pi]))
       THEN "KeyError"
  ELSE IF Raising(d) = {} THEN "none"
  ELSE RaisedBy(d, SetMin(Raising(d)))

----------------------------------------------------------------------------
(* find_optimal_plan: the borrowing side of the program (lines 325-361) *)

RECURSIVE SumInts(_)
SumInts(s) == IF s = <<>> THEN 0 ELSE s[1] + SumInts(Tail(s))

\* the entry of borrowed_from that key k reads, as an index into c.BK
Entry(c, k) == IndexOf(c.BK, KeyPos(c.BP, k))

\* the variable behind the i-th entry: the one of the last insertion
BVar(c, i) == DictGet(c.BP, c.BP[c.BK[i]].k)

\* how many terms of the need constraint (line 361) read the i-th entry
Mult(c, i) ==
  Cardinality({jp \in {<<j, pi>> : j \in 1..Len(c.S), pi \in 1..c.maxOptions} :
                 /\ jp[2] <= Len(c.opts[jp[1]])
                 /\ KeyEq(Key(BVar(c, i).year, c.S[jp[1]], c.opts[jp[1]][jp[2]]),
                          c.BP[c.BK[i]].k)})

\* active_plan[(source, plan)] as read at line 352, inside the loop
ActiveAt(c, j, plan) ==
  SetMax({q \in Positions(c.PP, Key(0, c.SS[j], plan)) : c.PP[q].v <= j})

\* active_plan[(source, plan)] as read at line 358, after the loop
ActiveFinal(c, src, plan) == SetMax(Positions(c.PP, Key(0, src, plan)))

\* payment[(t, s, plan)] and balance[(t, s, plan)] after the builder has run,
\* for the i-th entry (plan, s) of plan_balance: family q inserts its months
\* 0..n-1 (line 381), so the dict holds the variable of the last family with
\* an equal key whose term covers month t; 0 if there is none
FinalFamily(pp, pk, maxT) ==
  Table([i \in 1..Len(pk) |->
           Table([t \in 1..maxT |->
                    SetMax({q \in Positions(pp, pp[pk[i]].k) :
                              t <= TermMonths(pp[q].k.plan)} \cup {0})])])

\* the dictionary reads of lines 352-416, resolved once per call: which entry
\* borrowed_from[(year, source, plan)] is, which variable each
\* active_plan[(source, plan)] is, and which family's variables the payment
\* dict holds
Reads(c) ==
  [site |-> Table([i \in 1..Len(c.BK) |-> BVar(c, i)]),
   mult |-> Table([i \in 1..Len(c.BK) |-> Mult(c, i)]),
   entry |-> Table([y \in 1..c.p.graduation_time |->
               Table([j \in 1..Len(c.SS) |->
                 Table([pi \in 1..Len(c.opts[j]) |->
                    Entry(c, Key(y - 1, c.SS[j], c.opts[j][pi]))])])]),
   at |-> Table([j \in 1..Len(c.SS) |->
            Table([pi \in 1..Len(c.opts[j]) |->
               ActiveAt(c, j, c.opts[j][pi])])]),
   final |-> Table([j \in 1..Len(c.SS) |->
               Table([pi \in 1..Len(c.opts[j]) |->
                  ActiveFinal(c, c.SS[j], c.opts[j][pi])])]),
   fam |-> FinalFamily(c.PP, c.PK, c.maxT)]

WithReads(c) == c @@ Reads(c)

\* the families whose variables the payment dict holds
WithHeld(c) ==
  c @@ [held |-> {c.fam[i][t] : i \in 1..Len(c.PK), t \in 1..c.maxT} \ {0}]

\* a source with at least one active plan instead of exactly one
ActiveSumAtLeast(c, j, a) ==
  SumInts([pi \in 1..Len(c.at[j]) |-> a[c.at[j][pi]]]) >= 1

\* sum(active_plan[(source, plan)] for plan in source.plan_options) == 1
ActiveSumAt(c, j, a) ==
  SumInts([pi \in 1..Len(c.at[j]) |-> a[c.at[j][pi]]]) = 1

\* the values of the binary active_plan variables that satisfy line 352: the
\* constraint of source j reads only the variables created for source j
RECURSIVE ActiveUpTo(_, _)
ActiveUpTo(c, j) ==
  IF j = 0 THEN {<<>>}
  ELSE {f @@ g : g \in ActiveUpTo(c, j - 1),
                 f \in {h \in [{q \in 1..Len(c.PP) : c.PP[q].v = j} -> {0, 1}] :
                          ActiveSumAt(c, j, h)}}

ActiveChoices(c) == ActiveUpTo(c, Len(c.SS))

WithActive(c) == c @@ [AC |-> ActiveChoices(c)]

\* the dictionaries of a call, its resolved reads and the values its
\* active_plan variables can take
Context(d) == WithActive(WithHeld(WithReads(d)))

\* var <= limit * used (line 333) and active >= used (line 358) for the i-th
\* entry holding v: some value of its binary used variable satisfies both
UsedOKAt(c, i, v, a) ==
  \E u \in {0, 1} :
     /\ c.site[i].origin = "source" => RLeq(v, RMul(c.site[i].ub, I(u)))
     /\ \A j \in 1..Len(c.SS) : \A pi \in 1..Len(c.final[j]) :
           c.entry[c.site[i].year + 1][j][pi] = i => a[c.final[j][pi]] >= u

UsedOK(c, b, a) == \A i \in 1..Len(c.BK) : UsedOKAt(c, i, b[i], a)

\* lb = 0 and ub of every borrow variable, and the pinned pre-existing loans
\* (lines 329, 337, 341-344)
BoundsOK(c, b) ==
  /\ \A n \in 1..Len(c.BP) :
        /\ RLeq(Zero, c.BP[n].v.ub)
        /\ c.BP[n].v.origin = "known" => RLeq(c.BP[n].v.fixed, c.BP[n].v.ub)
  /\ \A i \in 1..Len(c.BK) :
        /\ RLeq(Zero, b[i]) /\ RLeq(b[i], c.site[i].ub)
        /\ c.site[i].origin = "known" => b[i] = c.site[i].fixed

\* sum over the offered sources and their plans == borrowed_amounts()[year]
NeedOK(c, b) ==
  \A y \in 1..c.p.graduation_time :
     RSumSeq(Concat([j \in 1..Len(c.S) |->
                       [pi \in 1..Len(c.entry[y][j]) |-> b[c.entry[y][j][pi]]]]))
     = c.need[y]

BorrowOK(c, b) ==
  /\ BoundsOK(c, b)
  /\ NeedOK(c, b)
  /\ \E a \in c.AC : UsedOK(c, b, a)

\* what the need constraint of entry i's year has drawn from the entries
\* before i
Drawn(c, b, i) ==
  RSumSeq([n \in 1..Len(b) |->
             IF c.site[n].year = c.site[i].year
             THEN RMul(I(c.mult[n]), b[n]) ELSE Zero])

\* the values tried for the i-th borrow variable after the values b of the
\* entries before it: the fractions k/d (d <= Parts) of the year's need, the
\* variable's upper bound, what the bound leaves of the need, and what the
\* entries before it leave of the need
Grid(c, a, i, b) ==
  LET site == c.site[i]
      need == c.need[site.year + 1]
      left == RSub(need, Drawn(c, b, i))
      fracs == UNION {{RMul(need, Norm(k, d)) : k \in 0..d} : d \in 1..Parts}
      tried == fracs \cup (IF RLeq(site.ub, need)
                           THEN {site.ub, RSub(need, site.ub)} ELSE {})
                     \cup (IF c.mult[i] = 0 THEN {}
                           ELSE {RDiv(left, I(c.mult[i]))})
  IN  IF site.origin = "known" THEN {site.fixed}
      ELSE {v \in tried : /\ RLeq(Zero, v) /\ RLeq(v, site.ub)
                          /\ RLeq(RMul(I(c.mult[i]), v), left)
                          /\ UsedOKAt(c, i, v, a)}

\* the values `from` of the entries before lo, followed by values of the
\* entries lo..hi; a long stretch is done in two halves
RECURSIVE BorrowCandidates(_, _, _, _, _)
BorrowCandidates(c, a, from, lo, hi) ==
  IF from = {} \/ lo > hi THEN from
  ELSE IF lo = hi
  THEN UNION {{Append(b, v) : v \in Grid(c, a, lo, b)} : b \in from}
  ELSE BorrowCandidates(c, a,
                        BorrowCandidates(c, a, from, lo, (lo + hi) \div 2),
                        (lo + hi) \div 2 + 1, hi)

\* the values of the borrow variables that satisfy lines 325-361
Allocations(c) ==
  {b \in UNION {BorrowCandidates(c, a, {<<>>}, 1, Len(c.BK)) : a \in c.AC} :
     BorrowOK(c, b)}

----------------------------------------------------------------------------
(* find_optimal_plan: the repayment side of the program (lines 363-425) *)

\* the value line 371 gives the i-th plan_balance variable: the key (plan, s)
\* is that of the first insertion, and s.principal is called on it
PlanBalanceOf(c, b, key) ==
  RSumSeq([y \in 1..c.p.graduation_time |->
             principal(key.src, b[Entry(c, Key(y - 1, key.src, key.plan))],
                       y - 1, c.p)])

PlanBalance(c, b, i) == PlanBalanceOf(c, b, c.PP[c.PK[i]].k)

\* the entry of plan_balance that family q reads (lines 384, 394, 395)
FamilyEntry(c, q) == IndexOf(c.PK, KeyPos(c.PP, c.PP[q].k))

\* one month of a family that pays min_formula: min_formula (line 394),
\* full (line 395) and the balance of line 390
Month(min, full) == [min |-> min, full |-> full, bal |-> RSub(full, min)]

\* months 0..n-1 of a family that pays min_formula every month, r being the
\* monthly rate, mins the values of min_formula and P the balance of month 0
\* (line 384): the months `done` followed by the months up to n - 1; a long
\* stretch is done in two halves
RECURSIVE LedgerTo(_, _, _, _, _)
LedgerTo(P, r, mins, done, n) ==
  IF Len(done) >= n THEN done
  ELSE IF Len(done) + 1 = n
  THEN Append(done,
              Month(mins[n],
                    RMul(RAdd(One, r), IF n = 1 THEN P ELSE done[n - 1].bal)))
  ELSE LedgerTo(P, r, mins,
                LedgerTo(P, r, mins, done, (Len(done) + n) \div 2), n)

LedgerFrom(P, r, mins) == LedgerTo(P, r, mins, <<>>, Len(mins))

Ledger(plan, P, p, n) ==
  LedgerFrom(P, MonthlyRate(plan),
             Table([t \in 1..n |-> monthly_payment(plan, P, t - 1, p)]))

\* The payment variable of a month equals min_formula or full (lines 401-413)
\* and is at most full (line 415).  From the first month k in which it equals
\* full the balance is 0, so full and the payment are 0 afterwards; and the
\* last balance is 0 (line 385), so there is such a month.  The values of a
\* family's variables are therefore given by k: min_formula before k, full
\* at k, 0 after.  Row is month t - 1 of the family that pays off in month k.
Row(ledger, k, t) ==
  IF t - 1 < k
  THEN [pay |-> ledger[t].min, min |-> ledger[t].min,
        full |-> ledger[t].full, bal |-> ledger[t].bal]
  ELSE IF t - 1 = k
  THEN [pay |-> ledger[t].full, min |-> ledger[t].min,
        full |-> ledger[t].full, bal |-> Zero]
  ELSE [pay |-> Zero, min |-> ledger[t].min, full |-> Zero, bal |-> Zero]

\* lines 397-416 for one month: the slacks s1 = payment - min_formula and
\* s2 = payment - full lie within their bounds, ub being
\* 1e6 * (1 - minimum_payment_only), for some values of the binaries i1, i2
SlacksOK(s1, s2, ub) ==
  /\ RLeq(I(-BigM), s1) /\ RLeq(s1, ub)
  /\ RLeq(I(-BigM), s2) /\ RLeq(s2, ub)
  /\ \E i1 \in {0, 1} :
        /\ RLeq(I(-BigM * i1), s1) /\ RLeq(s1, I(BigM * i1))
        /\ RLeq(I(-BigM * (1 - i1)), s2) /\ RLeq(s2, I(BigM * (1 - i1)))

SlackOK(row, mpo) ==
  /\ SlacksOK(RSub(row.pay, row.min), RSub(row.pay, row.full),
              I(BigM * (1 - mpo)))
  /\ RLeq(row.pay, row.full)
  /\ RLeq(Zero, row.pay)

\* the constraints of lines 381-416 on the variables of one month
RowOK(row, mpo) ==
  /\ RLeq(Zero, row.pay)
  /\ RLeq(Zero, row.bal)
  /\ SlackOK(row, mpo)

\* a month's row depends on k only through the month being before, at or
\* after k: whether each of the three rows of month t - 1 is admitted
Admits(ledger, mpo) ==
  Table([t \in 1..Len(ledger) |->
           [before |-> RowOK(Row(ledger, t, t), mpo),
            at |-> RowOK(Row(ledger, t - 1, t), mpo),
            after |-> RowOK(Row(ledger, -1, t), mpo)]])

\* the constraints of lines 381-416 on the variables of the family that pays
\* off in month k (its last balance is 0 for every k below its term)
FamilyOK(admits, k) ==
  \A t \in 1..Len(admits) :
     IF t - 1 < k THEN admits[t].before
     ELSE IF t - 1 = k THEN admits[t].at
     ELSE admits[t].after

\* the payoff months a family can have
PayoffMonths(admits) == {k \in 0..(Len(admits) - 1) : FamilyOK(admits, k)}

\* a debt service that shrinks as max_dti grows
DebtServiceOfTheRest(p, month) ==
  RDiv(RMul(RSub(One, p.max_dti), income_at_year(p, month \div MonthsPerYear)),
       I(MonthsPerYear))

\* debt_service of line 420
DebtService(p, month) ==
  RDiv(RMul(p.max_dti, income_at_year(p, month \div MonthsPerYear)),
       I(MonthsPerYear))

\* line 421: the sum runs over the keys of plan_balance and reads the payment
\* dict, pay[i][t] being the variable it holds for entry i and month t - 1
DtiOK(c, pay) ==
  \A month \in 0..(c.months - 1) :
     RLeq(RSumSeq([i \in 1..Len(c.PK) |->
                     IF month < c.maxT /\ c.fam[i][month + 1] # 0
                     THEN pay[i][month + 1] ELSE Zero]),
          DebtService(c.p, month))

\* line 425: the months of the key plan of every entry of plan_balance
Objective(c, pay) ==
  RSumSeq([i \in 1..Len(c.PK) |->
             RSumSeq([t \in 1..TermMonths(c.PP[c.PK[i]].k.plan) |-> pay[i][t]])])

\* person.minimum_payment_only, the flag being a bool
Mpo(p) == IF p.minimum_payment_only THEN 1 ELSE 0

\* plan_balance for the borrow variables b
Principals(c, b) == Table([i \in 1..Len(c.PK) |-> PlanBalance(c, b, i)])

\* the ledger of every family
Ledgers(c, P) ==
  Table([q \in 1..Len(c.PP) |->
           Ledger(c.PP[q].k.plan, P[FamilyEntry(c, q)], c.p,
                  TermMonths(c.PP[q].k.plan))])

\* the payoff months of every family
Good(c, ledger) ==
  Table([q \in 1..Len(c.PP) |-> PayoffMonths(Admits(ledger[q], Mpo(c.p)))])

\* a payoff month for every family whose variables the payment dict holds
Picks(c, good) ==
  {K \in [c.held -> 0..(c.maxT - 1)] : \A q \in c.held : K[q] \in good[q]}

\* the values of the payment variables the dict holds
PayOf(c, ledger, K) ==
  Table([i \in 1..Len(c.PK) |->
           Table([t \in 1..c.maxT |->
                    IF c.fam[i][t] = 0 THEN Zero
                    ELSE Row(ledger[c.fam[i][t]], K[c.fam[i][t]], t).pay])])

Solution(c, b, pay) == [b |-> b, pay |-> pay, obj |-> Objective(c, pay)]

\* the solutions with the borrow variables b: the payoff months of the
\* families that satisfy lines 381-421
SolutionsWith(c, b, ledger, good) ==
  IF \E q \in 1..Len(c.PP) : good[q] = {} THEN {}
  ELSE {Solution(c, b, pay) :
          pay \in {x \in {PayOf(c, ledger, K) : K \in Picks(c, good)} :
                     DtiOK(c, x)}}

SolutionsFrom(c, b, ledger) == SolutionsWith(c, b, ledger, Good(c, ledger))

SolutionsOf(c, b) ==
  UNION {SolutionsFrom(c, b, ledger) :
           ledger \in {Ledgers(c, P) : P \in {Principals(c, b)}}}

\* every solution of the model
Solutions(c) == UNION {SolutionsOf(c, b) : b \in Allocations(c)}

\* the least of a non-empty set of rationals: the least among those of the
\* least integer part
Nearest(S, low) == {x \in S : RFloor(x) = low}

LeastOf(near) == CHOOSE m \in near : \A x \in near : RLeq(m, x)

Least(S) == LeastOf(Nearest(S, SetMin({RFloor(x) : x \in S})))

Having(all, best) == {x \in all : x.obj = best}

\* model.optimize(): the solutions of least objective
BestOf(all) == IF all = {} THEN {} ELSE Having(all, Least({x.obj : x \in all}))

Optimal(c) == BestOf(Solutions(c))

----------------------------------------------------------------------------
(* find_optimal_plan: what it returns (lines 429-444) *)

\* the key (year, source, plan) of the i-th entry of borrowed_from
BorrowKey(c, i) == c.BP[c.BK[i]].k

\* the entries of borrowed_from above 1e-3, in the order of the dict
Listed(c, b) ==
  SelectSeq([i \in 1..Len(c.BK) |-> i], LAMBDA i : RLt(AmtThreshold, b[i]))

ListedIn(c, b, year) ==
  SelectSeq(Listed(c, b), LAMBDA i : BorrowKey(c, i).t = year)

ResultRows(c, b, listed) ==
  Table([n \in 1..Len(listed) |->
           [amt |-> b[listed[n]], plan |-> BorrowKey(c, listed[n]).plan,
            src |-> BorrowKey(c, listed[n]).src]])

\* result[year]: the entries of borrowed_from of that year above 1e-3
ResultOf(c, b) ==
  Table([y \in 1..c.p.graduation_time |-> ResultRows(c, b, ListedIn(c, b, y - 1))])

\* overpayments[source, plan] = {month: payment[(month, source, plan)].x ...}
TraceOf(c, pay, key) ==
  [k |-> Key(0, key.src, key.plan),
   v |-> Table([t \in 1..TermMonths(key.plan) |->
                  pay[IndexOf(c.PK, KeyPos(c.PP, Key(0, key.src, key.plan)))][t]])]

\* for the same entries, in the same order
TracesOf(c, pay, listed) ==
  Table([n \in 1..Len(listed) |-> TraceOf(c, pay, BorrowKey(c, listed[n]))])

OverpaymentsOf(c, b, pay) == TracesOf(c, pay, Listed(c, b))

----------------------------------------------------------------------------
(* Plan.amortization_schedule (lines 72-95); money in a row is in cents *)

\* one pass of the loop body (lines 82-94): the row of month n and the state
\* after it
PassOf(at, n, payment_m, interest) ==
  [schedule |->
     Append(at.schedule,
            [month |-> n,
             payment |-> RoundCents(payment_m),
             principal_paid |-> RoundCents(RSub(payment_m, interest)),
             interest_paid |-> RoundCents(interest),
             balance |-> RoundCents(RSub(at.balance, RSub(payment_m, interest)))]),
   balance |-> RSub(at.balance, RSub(payment_m, interest)),
   open |-> ~RLeq(RSub(at.balance, RSub(payment_m, interest)), Epsilon)]

\* a pass that pays the balance off whatever the trace says
PassPayingOff(at, n, payment_m, interest) ==
  PassOf(at, n, RAdd(at.balance, interest), interest)

\* a pass that never breaks out of the loop
PassStayingOpen(at, n, payment_m, interest) ==
  [PassOf(at, n, payment_m, interest) EXCEPT !.open = TRUE]

Pass(at, n, payment_m, interest) == PassOf(at, n, payment_m, interest)

\* the loop of line 81 run from the state `at` (the schedule so far, the
\* balance, and whether the loop is still open) until it breaks or has done
\* month n - 1; a long stretch is done in two halves
RECURSIVE Rows(_, _, _, _)
Rows(plan, trace, at, n) ==
  IF ~at.open \/ Len(at.schedule) >= n THEN at
  ELSE IF Len(at.schedule) + 1 = n
  THEN Pass(at, n, trace[n], RMul(at.balance, MonthlyRate(plan)))
  ELSE Rows(plan, trace,
            Rows(plan, trace, at, (Len(at.schedule) + n) \div 2), n)

amortization_schedule(plan, balance, trace) ==
  Rows(plan, trace, [schedule |-> <<>>, balance |-> balance, open |-> TRUE],
       TermMonths(plan)).schedule

----------------------------------------------------------------------------
(* main.py: the groups of the result and their replay (lines 196-240) *)

\* the key (src.name(), plan.__class__.__name__, plan.loan_terms()) of line 210
GroupKey(entry) ==
  <<entry.src.name, entry.plan.cls, entry.plan.annual_rate, entry.plan.term_years>>

AllEntries(res) == Concat(res)

\* the keys of a list of entries, and the distinct ones in the order of their
\* first entry
FirstKeys(all) == Table([i \in 1..Len(all) |-> GroupKey(all[i])])

RECURSIVE Distinct(_, _)
Distinct(keys, seen) ==
  IF keys = <<>> THEN seen
  ELSE Distinct(Tail(keys),
                IF \E n \in 1..Len(seen) : seen[n] = keys[1] THEN seen
                ELSE Append(seen, keys[1]))

\* groups.items()
Groups(res) == Distinct(FirstKeys(AllEntries(res)), <<>>)

\* info[year] of a group for a year with the entries `mine`: the summed
\* amount and the last plan and source written (lines 212-214)
InfoOf(mine) ==
  IF mine = <<>> THEN [used |-> FALSE]
  ELSE [used |-> TRUE,
        amount |-> RSumSeq([n \in 1..Len(mine) |-> mine[n].amt]),
        rep |-> mine[Len(mine)].plan, src |-> mine[Len(mine)].src]

GroupInfo(res, key) ==
  Table([y \in 1..Len(res) |->
           InfoOf(SelectSeq(res[y], LAMBDA e : GroupKey(e) = key))])

\* the first year of a group
FirstYear(info) == SetMin({y \in 1..Len(info) : info[y].used})

\* lines 233-239: rep_plan and src of the group's first year, the principal
\* src.principal gives for the yearly amounts, and the trace of the pair
ReplayOf(p, over, info, rep_plan, src) ==
  [plan |-> rep_plan,
   balance |-> RSumSeq([y \in 1..Len(info) |->
                          IF info[y].used
                          THEN principal(src, info[y].amount, y - 1, p)
                          ELSE Zero]),
   trace |-> DictGet(over, Key(0, src, rep_plan))]

ReplayFor(p, over, info) ==
  ReplayOf(p, over, info, info[FirstYear(info)].rep, info[FirstYear(info)].src)

ReplayCall(p, res, over, key) == ReplayFor(p, over, GroupInfo(res, key))

----------------------------------------------------------------------------
(* The calls the model makes *)

\* the principal (2^24 - 1) / 2^12: at the monthly rate 1 its minimum payment
\* is 4097 over one year and 4096 over two
Unit == <<16777215, 4096>>

\* a yearly need that Bank A capitalises to Unit over one year in school
NeedOne == <<16777215, 16777216>>

\* a yearly need that Bank A capitalises to 16 * Unit over two years in school
NeedTwo == <<4095, 1048576>>

\* a yearly need whose half Bank A capitalises to 33215/16, a principal with
\* whole-cent fractions under the monthly rates 1 and 2
NeedMixed == <<33215, 32768>>

BankA == PrivateLoanFactory("Bank A", I(12), Zero, 1)

BankB == PrivateLoanFactory("Bank B", I(12), Zero, 1)

BankLong == PrivateLoanFactory("Bank B", I(12), Zero, 2)

BankDear == PrivateLoanFactory("Bank C", I(24), Zero, 1)

BankZero == PrivateLoanFactory("Bank Z", I(12), Zero, 0)

Family == UserDefinedSource("Family", StandardPlan(I(12), 2), I(12), FALSE)

\* main.py line 163
ExistingLoan(loan_name, curr_balance, rate, subsidized_loan, term) ==
  [balance |-> curr_balance, plan |-> StandardPlan(rate, term),
   src |-> UserDefinedSource(loan_name, StandardPlan(rate, term), rate,
                             subsidized_loan)]

Half(x) == RDiv(x, I(2))

Twice(x) == RMul(I(2), x)

Case(S, need, graduation_time, loans, incomes) ==
  [S |-> S, need |-> need, graduation_time |-> graduation_time, loans |-> loans,
   incomes |-> incomes]

Cases ==
  { Case(<<BankA>>, NeedOne, 1, <<>>, {49164, 98328}),
    Case(<<BankA, BankB>>, NeedOne, 1, <<>>, {98328}),
    Case(<<BankA, BankLong>>, NeedOne, 1, <<>>, {49164, 98328}),
    Case(<<BankLong, BankA>>, NeedOne, 1, <<>>, {49164}),
    Case(<<BankA, BankDear>>, NeedMixed, 1, <<>>, {98328}),
    Case(<<BankA, Family>>, NeedOne, 1, <<>>, {98328}),
    Case(<<BankA>>, NeedOne, 1,
         <<ExistingLoan("Loan 1", Twice(Unit), I(12), TRUE, 2)>>, {147480}),
    Case(<<BankA>>, NeedOne, 1,
         <<ExistingLoan("Loan 1", Half(Unit), I(12), TRUE, 1),
           ExistingLoan("Loan 2", Unit, I(12), TRUE, 2)>>, {98328}),
    Case(<<BankA>>, NeedTwo, 2, <<>>, {1573248}),
    Case(<<BankA>>, NeedTwo, 2,
         <<ExistingLoan("Loan 1", Unit, I(12), TRUE, 1)>>, {1671576}),
    Case(<<BankZero>>, NeedOne, 1, <<>>, {98328}),
    Case(<<BankA, BankZero>>, NeedOne, 1, <<>>, {98328}),
    Case(<<PlusFederal>>, NeedOne, 1, <<>>, {98328}),
    Case(<<BankA>>, NeedOne, 1,
         <<ExistingLoan("Loan 1", Unit, Zero, TRUE, 1)>>, {98328}),
    Case(<<>>, NeedOne, 1, <<>>, {98328}) }

Dtis == {Zero, <<1, 2>>, One}

\* how the caller builds the profile: with main.py's arguments and the flag
\* set, with main.py's arguments alone, or with the defaults of person.py
Profiles == {"flag off", "flag on", "no flag", "defaults"}

Profile(k, income, dti, how) ==
  LET built == Person(TRUE, I(income), Zero, k.need, k.graduation_time, dti,
                      IF how = "defaults" THEN NoLoans ELSE ByYear(k.loans))
  IN  IF how = "flag off" THEN SetMinimumPaymentOnly(built, FALSE)
      ELSE IF how = "flag on" THEN SetMinimumPaymentOnly(built, TRUE)
      ELSE built

NoPrev == [set |-> FALSE, found |-> FALSE, objective |-> Zero, max_dti |-> Zero]

Init ==
  /\ \E k \in Cases : \E income \in k.incomes : \E dti \in Dtis :
       \E how \in Profiles :
          /\ how = "defaults" => k.loans = <<>>
          /\ person = Profile(k, income, dti, how)
          /\ sources = k.S
  /\ pc = "start"
  /\ error = "none"
  /\ result = <<>>
  /\ overpayments = <<>>
  /\ payment = <<>>
  /\ objective = Zero
  /\ prev = NoPrev
  /\ call = <<>>
  /\ schedule = <<>>

\* what find_optimal_plan(p, S) can end with: an exception,
Raised(raised) ==
  [pc |-> "raised", error |-> raised, result |-> <<>>, overpayments |-> <<>>,
   payment |-> <<>>, objective |-> Zero]

\* the no-plan signal (None, None) of line 430,
NoPlan ==
  [pc |-> "noplan", error |-> "none", result |-> <<>>, overpayments |-> <<>>,
   payment |-> <<>>, objective |-> Zero]

\* or the result and the overpayments of an optimal solution x
Solved(c, x) ==
  [pc |-> "solved", error |-> "none", result |-> ResultOf(c, x.b),
   overpayments |-> OverpaymentsOf(c, x.b, x.pay), payment |-> x.pay,
   objective |-> x.obj]

Returned(c, best) == IF best = {} THEN {NoPlan} ELSE {Solved(c, x) : x \in best}

Answered(c) == Returned(c, Optimal(c))

Ended(d, raised) ==
  IF raised # "none" THEN {Raised(raised)} ELSE Answered(Context(d))

Built(d) == Ended(d, BuildError(d))

Outcomes(p, S) == Built(Dicts(p, S))

\* find_optimal_plan(person, sources), main.py line 190
FindOptimalPlan ==
  /\ pc = "start"
  /\ \E o \in Outcomes(person, sources) :
        /\ pc' = o.pc
        /\ error' = o.error
        /\ result' = o.result
        /\ overpayments' = o.overpayments
        /\ payment' = o.payment
        /\ objective' = o.objective
  /\ UNCHANGED <<person, sources, prev, call, schedule>>

\* one round of the loop of main.py line 222: the next group is replayed
Replay ==
  /\ pc = "solved"
  /\ \E groups \in {Groups(result)} :
        /\ Len(schedule) < Len(groups)
        /\ \E args \in {ReplayCall(person, result, overpayments,
                                   groups[Len(schedule) + 1])} :
              /\ call' = Append(call, args)
              /\ schedule' = Append(schedule,
                                    amortization_schedule(args.plan, args.balance,
                                                          args.trace))
  /\ UNCHANGED <<person, sources, pc, error, result, overpayments, payment,
                 objective, prev>>

\* the script has run to its end
Finished ==
  \/ pc = "noplan"
  \/ pc = "solved" /\ Len(schedule) = Len(Groups(result))

\* the user raises the max_dti slider (main.py lines 135-140): the script
\* starts again with the same other inputs
Rerun ==
  /\ Finished
  /\ ~prev.set
  /\ \E dti \in Dtis :
        /\ RLt(person.max_dti, dti)
        /\ person' = [person EXCEPT !.max_dti = dti]
  /\ prev' = [set |-> TRUE, found |-> pc = "solved", objective |-> objective,
              max_dti |-> person.max_dti]
  /\ pc' = "start"
  /\ error' = "none"
  /\ result' = <<>>
  /\ overpayments' = <<>>
  /\ payment' = <<>>
  /\ objective' = Zero
  /\ call' = <<>>
  /\ schedule' = <<>>
  /\ UNCHANGED sources

Next == FindOptimalPlan \/ Replay \/ Rerun

Spec == Init /\ [][Next]_vars

----------------------------------------------------------------------------
(* The borrowing side with the federal sources.  Their plans run for 10 to  *)
(* 25 years, so the repayment side of these calls is left open: the call    *)
(* ends with the no-plan signal or with any values of the borrow variables  *)
(* that satisfy lines 325-361, of which the solver's optimum is one.        *)

FederalLists ==
  { <<DirectSubsidizedFederal, DirectUnsubsidizedFederal>>,
    <<DirectSubsidizedFederal, DirectUnsubsidizedFederal, BankA>> }

FederalNeeds == {I(3000), I(7000)}

FederalProfile(eligible, need, years) ==
  SetMinimumPaymentOnly(
    Person(eligible, I(75000), Zero, need, years, <<3, 10>>, ByYear(<<>>)), FALSE)

InitAlloc ==
  /\ \E eligible \in BOOLEAN : \E need \in FederalNeeds : \E years \in 1..2 :
        person = FederalProfile(eligible, need, years)
  /\ sources \in FederalLists
  /\ pc = "start"
  /\ error = "none"
  /\ result = <<>>
  /\ overpayments = <<>>
  /\ payment = <<>>
  /\ objective = Zero
  /\ prev = NoPrev
  /\ call = <<>>
  /\ schedule = <<>>

\* the result of lines 432-444 for the borrow variables b
Allocated(c, b) ==
  [pc |-> "allocated", error |-> "none", result |-> ResultOf(c, b)]

AllocatedFrom(c) == {NoPlan} \cup {Allocated(c, b) : b \in Allocations(c)}

AllocationsEnded(d, raised) ==
  IF raised # "none" THEN {Raised(raised)} ELSE AllocatedFrom(Context(d))

AllocationsBuilt(d) == AllocationsEnded(d, BuildError(d))

AllocationOutcomes(p, S) == AllocationsBuilt(Dicts(p, S))

\* find_optimal_plan(person, sources) up to the result it returns
FindAllocation ==
  /\ pc = "start"
  /\ \E o \in AllocationOutcomes(person, sources) :
        /\ pc' = o.pc
        /\ error' = o.error
        /\ result' = o.result
  /\ UNCHANGED <<person, sources, overpayments, payment, objective, prev, call,
                 schedule>>

NextAlloc == FindAllocation

SpecAlloc == InitAlloc /\ [][NextAlloc]_vars

----------------------------------------------------------------------------
(* Plan.amortization_schedule on its own: every plan class, the annual      *)
(* rates 0 and 12, and traces that pay `early` for the first months and     *)
(* `late` afterwards.                                                       *)

ReplayRates == {Zero, I(12)}

ReplayPlans ==
  UNION {{StandardPlan(r, 1), StandardPlan(r, 2), GraduatedPlan(r),
          ExtendedPlan(r), PAYEPlan(r), REPAYEPlan(r), SAVEPlan(r), ICRPlan(r)} :
           r \in ReplayRates}

ReplayBalances == {I(100), <<1000, 3>>}

\* the length of the first stretch of a trace
Stretches == {0, 1, 2, 5}

\* the payments of the first stretch: the first month's interest alone, a
\* third of a dollar above it, or all but 0.012 of the balance and interest
EarlyPayments(plan, balance) ==
  {RMul(balance, MonthlyRate(plan)),
   RAdd(RMul(balance, MonthlyRate(plan)), <<1, 3>>),
   RSub(RMul(balance, RAdd(One, MonthlyRate(plan))), <<3, 250>>)}

\* the payments afterwards: the starting balance with a month's interest,
\* twice that and, without interest, nothing
LatePayments(plan, balance) ==
  {RMul(balance, RAdd(One, MonthlyRate(plan))),
   RMul(I(2), RMul(balance, RAdd(One, MonthlyRate(plan))))}
  \cup (IF plan.annual_rate = Zero THEN {Zero} ELSE {})

TraceOfPayments(plan, j, early, late) ==
  Table([t \in 1..TermMonths(plan) |-> IF t <= j THEN early ELSE late])

ReplayInputs ==
  UNION {UNION {{[plan |-> plan, balance |-> balance,
                  trace |-> TraceOfPayments(plan, j, early, late)] :
                   j \in Stretches, early \in EarlyPayments(plan, balance),
                   late \in LatePayments(plan, balance)} :
                  balance \in ReplayBalances} : plan \in ReplayPlans}

InitReplay ==
  /\ person = FederalProfile(TRUE, I(3000), 1)
  /\ sources = <<>>
  /\ pc = "replay"
  /\ error = "none"
  /\ result = <<>>
  /\ overpayments = <<>>
  /\ payment = <<>>
  /\ objective = Zero
  /\ prev = NoPrev
  /\ \E input \in ReplayInputs : call = <<input>>
  /\ schedule = <<>>

\* rep_plan.amortization_schedule(initial_principal, person, trace)
Amortize ==
  /\ pc = "replay"
  /\ pc' = "replayed"
  /\ schedule' = <<amortization_schedule(call[1].plan, call[1].balance,
                                         call[1].trace)>>
  /\ UNCHANGED <<person, sources, error, result, overpayments, payment,
                 objective, prev, call>>

NextReplay == Amortize

SpecReplay == InitReplay /\ [][NextReplay]_vars

----------------------------------------------------------------------------
(* Plan.monthly_payment on its own: a plan, a balance, a 0-indexed month of *)
(* the plan's term and a borrower's starting income.                        *)

QuotePlans ==
  { StandardPlan(I(12), 1), StandardPlan(I(12), 2), StandardPlan(I(12), 0),
    ExtendedPlan(I(12)), GraduatedPlan(Zero),
    GraduatedPlanOf(I(12), 1, 2, <<3, 2>>), GraduatedPlanOf(Zero, 2, 1, <<3, 2>>),
    PAYEPlan(I(12)), REPAYEPlan(I(12)), SAVEPlan(I(12)),
    ICRPlan(I(12)), ICRPlan(I(24)), ICRPlan(Zero) }

QuoteMonths == {0, 1, 11, 12, 13, 23}

QuoteBalances == {I(1), I(100)}

\* starting incomes below, just above and well above 1.5 poverty guidelines
QuoteIncomes == {10300, 21630, 41200}

InitQuote ==
  /\ \E income \in QuoteIncomes :
        person = SetMinimumPaymentOnly(
                   Person(TRUE, I(income), Zero, I(3000), 1, <<3, 10>>,
                          ByYear(<<>>)), FALSE)
  /\ \E plan \in QuotePlans : \E balance \in QuoteBalances :
        \E month \in QuoteMonths :
           /\ month < TermMonths(plan) \/ month = 0
           /\ call = <<[plan |-> plan, balance |-> balance, month |-> month]>>
  /\ sources = <<>>
  /\ pc = "quote"
  /\ error = "none"
  /\ result = <<>>
  /\ overpayments = <<>>
  /\ payment = <<>>
  /\ objective = Zero
  /\ prev = NoPrev
  /\ schedule = <<>>

\* plan.monthly_payment(balance, month, person)
MonthlyPayment ==
  /\ pc = "quote"
  /\ IF PlanMRaises(call[1].plan)
     THEN /\ pc' = "raised"
          /\ error' = "ZeroDivisionError"
          /\ payment' = payment
     ELSE /\ pc' = "quoted"
          /\ error' = error
          /\ payment' = <<<<monthly_payment(call[1].plan, call[1].balance,
                                            call[1].month, person)>>>>
  /\ UNCHANGED <<person, sources, result, overpayments, objective, prev, call,
                 schedule>>

NextQuote == MonthlyPayment

SpecQuote == InitQuote /\ [][NextQuote]_vars

----------------------------------------------------------------------------
(* loans.py: the Loan objects and Loan.__add__ *)

\* Loan.__init__; step_years and alpha are attributes of a GraduatedPlan alone
LoanInit(cls, amount, annual_rate, term_years) ==
  [cls |-> cls, principal |-> amount, annual_rate |-> annual_rate,
   term_years |-> term_years, step_years |-> 0, alpha |-> Zero]

\* the positional arguments the __init__ of each class takes after self
MaxArgs(cls) ==
  CASE cls = "ExtendedPlan" -> 2
    [] cls = "GraduatedPlan" -> 5
    [] OTHER -> 3

\* the default of term_years in the __init__ of each class
DefaultTerm(cls) ==
  CASE cls \in {"StandardPlan", "GraduatedPlan"} -> 10
    [] cls \in {"ExtendedPlan", "ICRPlan"} -> 25
    [] OTHER -> 20

\* cls(*args) raises TypeError on a wrong number of arguments
NewLoanRaises(cls, args) == Len(args) < 2 \/ Len(args) > MaxArgs(cls)

\* cls(*args), with args = (principal, annual_rate[, term_years[, step_years[, alpha]]])
NewLoan(cls, args) ==
  IF cls = "GraduatedPlan"
  THEN [LoanInit(cls, args[1], args[2],
                 IF Len(args) >= 3 THEN args[3] ELSE DefaultTerm(cls))
          EXCEPT !.step_years = IF Len(args) >= 4 THEN args[4] ELSE 2,
                 !.alpha = IF Len(args) >= 5 THEN args[5] ELSE <<3, 2>>]
  ELSE LoanInit(cls, args[1], args[2],
                IF Len(args) >= 3 THEN args[3] ELSE DefaultTerm(cls))

\* the assert of Loan.__add__
SameTerms(self, other) ==
  /\ other.term_years = self.term_years
  /\ self.annual_rate = other.annual_rate
  /\ self.cls = other.cls

\* the arguments of the constructor call of Loan.__add__
AddArgs(self, other) ==
  <<RAdd(self.principal, other.principal), self.annual_rate, self.term_years>>

\* what self + other raises, "none" when it returns
AddRaises(self, other) ==
  IF ~SameTerms(self, other) THEN "AssertionError"
  ELSE IF NewLoanRaises(self.cls, AddArgs(self, other)) THEN "TypeError"
  ELSE "none"

LoanClasses ==
  {"StandardPlan", "GraduatedPlan", "ExtendedPlan", "PAYEPlan", "REPAYEPlan",
   "SAVEPlan", "ICRPlan"}

LoanPrincipals == {I(1), I(2)}

LoanRates == {Zero, I(12)}

LoanTerms == {10, 25}

\* the loans a caller can construct: with the default term or with a term
Loans ==
  UNION {{NewLoan(cls, <<amount, annual_rate>>)} \cup
         {NewLoan(cls, <<amount, annual_rate, term_years>>) :
            term_years \in IF cls = "ExtendedPlan" THEN {} ELSE LoanTerms} :
           cls \in LoanClasses, amount \in LoanPrincipals,
           annual_rate \in LoanRates}
    \cup {NewLoan("GraduatedPlan", <<I(1), I(12), 10, 1, I(2)>>)}

InitLoans ==
  /\ person = Person(TRUE, I(41200), Zero, I(3000), 1, <<3, 10>>, ByYear(<<>>))
  /\ \E self \in Loans : \E other \in Loans :
        call = <<[self |-> self, other |-> other]>>
  /\ sources = <<>>
  /\ pc = "add"
  /\ error = "none"
  /\ result = <<>>
  /\ overpayments = <<>>
  /\ payment = <<>>
  /\ objective = Zero
  /\ prev = NoPrev
  /\ schedule = <<>>

\* self + other
Add ==
  /\ pc = "add"
  /\ error' = AddRaises(call[1].self, call[1].other)
  /\ IF error' # "none"
     THEN /\ pc' = "raised"
          /\ result' = result
     ELSE /\ pc' = "added"
          /\ result' = <<NewLoan(call[1].self.cls,
                                 AddArgs(call[1].self, call[1].other))>>
  /\ UNCHANGED <<person, sources, overpayments, payment, objective, prev, call,
                 schedule>>

NextLoans == Add

SpecLoans == InitLoans /\ [][NextLoans]_vars

----------------------------------------------------------------------------
(* FundingSource.plan_options on its own: the built-in sources, as a caller *)
(* can construct them, and a borrower.                                      *)

OptionRates == {Zero, I(12), I(24)}

OptionYears == {0, 1, 2, 20}

OptionNames == {"Bank A", "Bank B"}

\* the sources whose plan_options is called
OptionSources ==
  {DirectSubsidizedFederal, DirectUnsubsidizedFederal, PlusFederal}
    \cup {PrivateLoanFactory(provider, annual_rate, Zero, max_years) :
            provider \in OptionNames, annual_rate \in OptionRates,
            max_years \in OptionYears}
    \cup {UserDefinedSource(name, StandardPlan(plan_rate, term), rate, subsidized) :
            name \in OptionNames, plan_rate \in OptionRates, term \in {1, 2},
            rate \in OptionRates, subsidized \in BOOLEAN}

InitOptions ==
  /\ \E eligible \in BOOLEAN : \E graduation_time \in {1, 2} :
        person = Person(eligible, I(41200), Zero, I(3000), graduation_time,
                        <<3, 10>>, ByYear(<<>>))
  /\ \E s \in OptionSources : sources = <<s>>
  /\ pc = "options"
  /\ error = "none"
  /\ result = <<>>
  /\ overpayments = <<>>
  /\ payment = <<>>
  /\ objective = Zero
  /\ prev = NoPrev
  /\ call = <<>>
  /\ schedule = <<>>

\* sources[0].plan_options(person)
PlanOptions ==
  /\ pc = "options"
  /\ IF PlanOptionsRaises(sources[1])
     THEN /\ pc' = "raised"
          /\ error' = "NameError"
          /\ result' = result
     ELSE /\ pc' = "listed"
          /\ error' = error
          /\ result' = <<plan_options(sources[1], person)>>
  /\ UNCHANGED <<person, sources, overpayments, payment, objective, prev, call,
                 schedule>>

NextOptions == PlanOptions

SpecOptions == InitOptions /\ [][NextOptions]_vars

----------------------------------------------------------------------------
(* Properties of find_optimal_plan and of the replay (Spec) *)

\* the fraction of a dollar in x
Cents(x) == <<x[1] % x[2], x[2]>>

\* the whole dollars, and the fractions of a dollar, of the amounts listed
\* for enrollment year y - 1
WholeListed(y) == SumInts([n \in 1..Len(result[y]) |-> RFloor(result[y][n].amt)])

CentsListed(y) == RSumSeq([n \in 1..Len(result[y]) |-> Cents(result[y][n].amt)])

\* C1: in a returned result, the amounts of all entries listed for an
\* enrollment year sum to that year's borrowed_amounts(); the two sides are
\* compared by their whole dollars and their fractions of a dollar
C1_ListedAmountsMeetNeed ==
  pc = "solved" =>
     \A y \in 1..person.graduation_time :
        RSub(CentsListed(y), Cents(borrowed_amounts(person)[y]))
        = I(RFloor(borrowed_amounts(person)[y]) - WholeListed(y))

\* the payments of repayment month t - 1 over all pairs with a variable
MonthTotal(t) ==
  RSumSeq([i \in 1..Len(payment) |->
             IF t <= Len(payment[i]) THEN payment[i][t] ELSE Zero])

\* the months in which some pair has a payment variable
PaymentMonths == UNION {1..Len(payment[i]) : i \in 1..Len(payment)}

\* C3: in a returned solution the payments of every repayment month sum to at
\* most max_dti * income_at_year(month // 12) / 12
C3_EveryMonthAffordable ==
  pc = "solved" =>
     \A t \in PaymentMonths : RLeq(MonthTotal(t), DebtService(person, t - 1))

\* C4: with max_dti = 0, a positive need and a non-empty list of sources the
\* call ends with the no-plan signal: it neither raises nor returns a result
C4_ZeroDtiGivesNoPlan ==
  /\ pc \in {"solved", "noplan", "raised"}
  /\ person.max_dti = Zero
  /\ RLt(Zero, borrowed_amounts(person)[1])
  /\ sources # <<>>
  => pc = "noplan"

\* C5: every pre-existing loan is listed in year 0 of a returned result with
\* its balance, plan and source, and in no later year
C5_ExistingLoansListedOnce ==
  pc = "solved" =>
     \A i \in 1..Len(person.existing_loans.loans) :
        /\ \E n \in 1..Len(result[1]) :
              /\ result[1][n].amt = person.existing_loans.loans[i].balance
              /\ result[1][n].plan = person.existing_loans.loans[i].plan
              /\ result[1][n].src = person.existing_loans.loans[i].src
        /\ \A y \in 2..Len(result) : \A n \in 1..Len(result[y]) :
              result[y][n].src.name # person.existing_loans.loans[i].src.name

\* C6: every replayed schedule retires its loan: the balance of its last row
\* is at most one cent
C6_ReplayRetiresLoan ==
  \A g \in 1..Len(schedule) :
     /\ schedule[g] # <<>>
     /\ schedule[g][Len(schedule[g])].balance <= 1

\* C7: no row of a replayed schedule has a negative balance
C7_ReplayBalanceNotNegative ==
  \A g \in 1..Len(schedule) : \A k \in 1..Len(schedule[g]) :
     schedule[g][k].balance >= 0

\* C8: the call that follows a raise of max_dti, all else equal, finds a plan
\* if the call before did, with a minimum total of payments that is no larger
C8_LooserDtiNeverWorse ==
  prev.set /\ prev.found /\ pc \in {"solved", "noplan", "raised"}
  => pc = "solved" /\ RLeq(objective, prev.objective)

\* a plan found at both values of max_dti, strictly cheaper at the larger one
C8_CheaperAtLooserDti ==
  /\ prev.set /\ prev.found /\ RLt(prev.max_dti, person.max_dti)
  /\ pc = "solved" /\ RLt(objective, prev.objective)

----------------------------------------------------------------------------
(* Properties of the borrowing side with the federal sources (SpecAlloc) *)

\* the plan variants of source s with an amount listed in some year
VariantsListed(s) ==
  UNION {{result[y][n].plan.cls :
            n \in {m \in 1..Len(result[y]) : result[y][m].src.name = s.name}} :
           y \in 1..Len(result)}

\* C2 as written: every source passed in has exactly one plan variant with a
\* nonzero amount over the enrollment years
C2_ExactlyOneVariant ==
  pc = "allocated" =>
     \A j \in 1..Len(sources) : Cardinality(VariantsListed(sources[j])) = 1

\* C2: in a returned allocation no source passed in has two or more plan
\* variants with a nonzero amount over the enrollment years, and a source
\* may have none
C2_AtMostOneVariant ==
  pc = "allocated" =>
     \A j \in 1..Len(sources) : Cardinality(VariantsListed(sources[j])) <= 1

\* a source offering several variants is borrowed from in both of two years,
\* under one variant
C2_OneVariantOverTwoYears ==
  /\ pc = "allocated"
  /\ Len(result) = 2
  /\ \E j \in 1..Len(sources) :
        /\ Len(plan_options(sources[j], person)) > 1
        /\ \A y \in 1..2 : \E n \in 1..Len(result[y]) :
              result[y][n].src.name = sources[j].name
        /\ Cardinality(VariantsListed(sources[j])) = 1

\* what is borrowed from the source called name in enrollment year y - 1
BorrowedFrom(y, name) ==
  RSumSeq([n \in 1..Len(result[y]) |->
             IF result[y][n].src.name = name THEN result[y][n].amt ELSE Zero])

\* C9: in a returned allocation what is borrowed from a source in a year is at
\* most the source's limit for that year; a borrower who is not
\* subsidized-eligible gets nothing from DirectSubsidizedFederal, and at most
\* 2000 a year comes from DirectUnsubsidizedFederal
C9_BorrowedWithinLimit ==
  pc = "allocated" =>
     \A y \in 1..Len(result) : \A j \in 1..Len(sources) :
        /\ RLeq(BorrowedFrom(y, sources[j].name), limit(sources[j], y - 1, person))
        /\ sources[j].cls = "DirectUnsubsidizedFederal"
             => RLeq(BorrowedFrom(y, sources[j].name), I(2000))
        /\ sources[j].cls = "DirectSubsidizedFederal"
             /\ ~person.subsidized_loan_eligible
             => BorrowedFrom(y, sources[j].name) = Zero

\* a borrower who is not eligible draws the whole 2000 of the unsubsidized
\* loan in some year, and the rest of the need elsewhere
C9_UnsubsidizedAtItsLimit ==
  /\ pc = "allocated"
  /\ ~person.subsidized_loan_eligible
  /\ \E y \in 1..Len(result) :
        /\ BorrowedFrom(y, "DirectUnsubsidizedFederal") = I(2000)
        /\ BorrowedFrom(y, "Bank A") = RSub(borrowed_amounts(person)[y], I(2000))

----------------------------------------------------------------------------
(* Properties of Plan.amortization_schedule (SpecReplay) *)

\* the balances the recurrence gives before the months 1..n,
\* from the first one on: balance - (payment - balance * rate)
RECURSIVE BalancesTo(_, _, _, _)
BalancesTo(r, trace, done, n) ==
  IF Len(done) >= n THEN done
  ELSE IF Len(done) + 1 = n
  THEN Append(done, RSub(done[n - 1],
                         RSub(trace[n - 1], RMul(done[n - 1], r))))
  ELSE BalancesTo(r, trace, BalancesTo(r, trace, done, (Len(done) + n) \div 2), n)

\* the rows agree with the balances `before`
RowsFollow(rows, r, trace, before) ==
  \A k \in 1..Len(rows) :
     /\ rows[k].month = k
     /\ rows[k].payment = RoundCents(trace[k])
     /\ rows[k].interest_paid = RoundCents(RMul(before[k], r))
     /\ rows[k].principal_paid = RoundCents(RSub(trace[k], RMul(before[k], r)))
     /\ rows[k].balance = RoundCents(before[k + 1])

\* C10: row k of a schedule is month k and carries the trace's payment of that
\* month in cents, the interest previous balance * annual_rate / 12, the
\* principal paid payment - interest and the balance previous balance -
\* principal paid
C10_RowsFollowTrace ==
  pc = "replayed" =>
     /\ schedule[1] # <<>>
     /\ RowsFollow(schedule[1], MonthlyRate(call[1].plan), call[1].trace,
                   BalancesTo(MonthlyRate(call[1].plan), call[1].trace,
                              <<call[1].balance>>, Len(schedule[1]) + 1))

\* a graduated plan at the rate 12 replayed over three months or more, with a
\* payment that is not a whole number of cents
C10_GraduatedReplayed ==
  /\ pc = "replayed"
  /\ call[1].plan.cls = "GraduatedPlan"
  /\ call[1].plan.annual_rate = I(12)
  /\ Len(schedule[1]) >= 3
  /\ I(schedule[1][1].payment) # RMul(call[1].trace[1], I(100))

----------------------------------------------------------------------------
(* Where Plan.amortization_schedule stops (SpecReplay) *)

\* the running balance after each of the rows of the schedule, unrounded
RunningBalances ==
  Tail(BalancesTo(MonthlyRate(call[1].plan), call[1].trace, <<call[1].balance>>,
                  Len(schedule[1]) + 1))

\* months 1, 2, ... in order, and no more rows than the term has months
RowsInOrder ==
  /\ \A k \in 1..Len(schedule[1]) : schedule[1][k].month = k
  /\ Len(schedule[1]) <= TermMonths(call[1].plan)

\* C11 as written: the rows are months 1, 2, ... in order, at most
\* term_years * 12 of them, every row before the last shows a balance above
\* 0.01, and the last row shows a balance of at most 0.01 unless the term
\* has run out
C11_EndsAtFirstSmallBalance ==
  pc = "replayed" =>
     /\ RowsInOrder
     /\ \A k \in 1..(Len(schedule[1]) - 1) : schedule[1][k].balance > 1
     /\ Len(schedule[1]) < TermMonths(call[1].plan)
          => schedule[1][Len(schedule[1])].balance <= 1

\* C11: the rows are months 1, 2, ... in order, at most term_years * 12 of
\* them; the running balance, before it is rounded for the row, is above
\* 0.01 after every row but the last, and is at most 0.01 after the last row
\* unless the term has run out
C11_EndsAtFirstSmallRunningBalance ==
  pc = "replayed" =>
     /\ RowsInOrder
     /\ \A k \in 1..(Len(schedule[1]) - 1) : RLt(Epsilon, RunningBalances[k])
     /\ Len(schedule[1]) < TermMonths(call[1].plan)
          => RLeq(RunningBalances[Len(schedule[1])], Epsilon)

\* a schedule that goes on after a row showing 0.01, whose running balance
\* was 0.012, and stops before the term has run out
C11_GoesOnAfterACent ==
  /\ pc = "replayed"
  /\ Len(schedule[1]) >= 2
  /\ Len(schedule[1]) < TermMonths(call[1].plan)
  /\ schedule[1][1].balance = 1
  /\ RunningBalances[1] = <<3, 250>>

----------------------------------------------------------------------------
(* Properties of the payments of a replayed pair (Spec): call[g] holds the  *)
(* plan of the pair, its aggregate principal and its payment trace          *)

\* C12: with minimum_payment_only set, the payment of a pair in every month
\* of its term is plan._m(month) * aggregate principal + plan._b(month)
C12_FlagPaysTheMinimum ==
  person.has_minimum_payment_only /\ person.minimum_payment_only =>
     \A g \in 1..Len(call) : \A t \in 1..Len(call[g].trace) :
        call[g].trace[t] = monthly_payment(call[g].plan, call[g].balance, t - 1, person)

\* the payments of the months t, t + 1, ... of a pair whose balance before
\* month t - 1 is bal: each is at least 0 and at most the payoff amount
\* (1 + r) * bal, and is the minimum payment of the month or the payoff amount
RECURSIVE MinimumOrPayoffFrom(_, _, _, _, _)
MinimumOrPayoffFrom(p, replayed, r, bal, t) ==
  t > Len(replayed.trace)
  \/ /\ RLeq(Zero, replayed.trace[t])
     /\ RLeq(replayed.trace[t], RMul(RAdd(One, r), bal))
     /\ \/ replayed.trace[t] = RMul(RAdd(One, r), bal)
        \/ replayed.trace[t]
             = monthly_payment(replayed.plan, replayed.balance, t - 1, p)
     /\ MinimumOrPayoffFrom(p, replayed, r,
                            RSub(RMul(RAdd(One, r), bal), replayed.trace[t]), t + 1)

\* C19: the payment of a pair in every month of its term is between 0 and
\* the payoff amount (1 + r) * previous balance, the aggregate principal in
\* month 0, and is either the month's minimum payment or the payoff amount
C19_MinimumOrPayoff ==
  \A g \in 1..Len(call) :
     MinimumOrPayoffFrom(person, call[g], MonthlyRate(call[g].plan),
                         call[g].balance, 1)

----------------------------------------------------------------------------
(* Properties of Plan.monthly_payment (SpecQuote) *)

\* the plan, balance and month of the call, and the payment it returned
Quoted == call[1]

QuotedPayment == payment[1][1]

\* the discretionary income of the repayment year that contains month t
CurrentYearIncome(t) == discretionary_income(person, t \div MonthsPerYear)

\* C13: the minimum payment of PAYEPlan and REPAYEPlan for month t is
\* discretionary_factor * discretionary_income(t // 12) / 12, whatever the
\* balance
C13_PayeUsesCurrentYear ==
  pc = "quoted" /\ Quoted.plan.cls \in {"PAYEPlan", "REPAYEPlan"} =>
     QuotedPayment = RDiv(RMul(person.discretionary_factor,
                               CurrentYearIncome(Quoted.month)),
                          I(MonthsPerYear))

\* C14: the minimum payment of SAVEPlan is 5% of the discretionary income of
\* the current repayment year divided by 12, whatever the balance
C14_SaveIsFivePercent ==
  pc = "quoted" /\ Quoted.plan.cls = "SAVEPlan" =>
     QuotedPayment = RDiv(RMul(<<1, 20>>, CurrentYearIncome(Quoted.month)),
                          I(MonthsPerYear))

\* C15: the minimum payment of ICRPlan is the lesser of 20% of the current
\* repayment year's discretionary income divided by 12 and the Standard-plan
\* payment on the balance over 12 years at the same rate
C15_IcrIsTheLesser ==
  pc = "quoted" /\ Quoted.plan.cls = "ICRPlan" =>
     QuotedPayment = RMin(RDiv(RMul(<<1, 5>>, CurrentYearIncome(Quoted.month)),
                               I(MonthsPerYear)),
                          RMul(StandardM(Quoted.plan.annual_rate, 12),
                               Quoted.balance))

\* the minimum payments m(t) * P of the months 0..n-1 of the quoted plan
MinimumPayments ==
  Table([t \in 1..TermMonths(Quoted.plan) |->
           monthly_payment(Quoted.plan, Quoted.balance, t - 1, person)])

\* each minimum is the one before it, times alpha in the first month of a step
StepsUp(plan, mins) ==
  \A t \in 2..Len(mins) :
     mins[t] = RMul(IF (t - 1) % (plan.step_years * MonthsPerYear) = 0
                    THEN plan.alpha ELSE One,
                    mins[t - 1])

\* the balance after the last month under balance[0] = (1 + r) * P - mins[0],
\* balance[t] = (1 + r) * balance[t - 1] - mins[t]
BalanceAfter(plan, P, mins) ==
  BalancesTo(MonthlyRate(plan), mins, <<P>>, Len(mins) + 1)[Len(mins) + 1]

\* C20: the minimum payments of a GraduatedPlan step up by alpha every
\* step_years * 12 months, and paying them brings the balance to zero in the
\* last month of the term
C20_GraduatedPaysOff ==
  pc = "quoted" /\ Quoted.plan.cls = "GraduatedPlan" =>
     /\ StepsUp(Quoted.plan, MinimumPayments)
     /\ BalanceAfter(Quoted.plan, Quoted.balance, MinimumPayments) = Zero

----------------------------------------------------------------------------
(* Zero-length terms in find_optimal_plan (Spec) *)

\* some offered source has a plan whose term is zero years
OffersZeroTerm ==
  \E j \in 1..Len(sources) :
     /\ ~PlanOptionsRaises(sources[j])
     /\ \E pi \in 1..Len(plan_options(sources[j], person)) :
           TermMonths(plan_options(sources[j], person)[pi]) = 0

\* C16: find_optimal_plan completes without raising when a source offers a
\* plan with term_years = 0 (the profile being one main.py builds, with the
\* minimum-payment flag set on it)
C16_ZeroTermCompletes ==
  /\ OffersZeroTerm
  /\ person.has_minimum_payment_only
  /\ person.existing_loans.form = "dict"
  => pc # "raised"

----------------------------------------------------------------------------
(* Loan.__add__ (SpecLoans) *)

\* C17: self + other raises when the two loans differ in annual rate, term or
\* class, and otherwise returns a loan of the class, rate and term of both
\* whose principal is the sum of their principals
C17_AddFailsOrSums ==
  pc # "add" =>
     IF SameTerms(call[1].self, call[1].other)
     THEN /\ pc = "added"
          /\ result[1].cls = call[1].self.cls
          /\ result[1].annual_rate = call[1].self.annual_rate
          /\ result[1].term_years = call[1].self.term_years
          /\ result[1].principal =
                RAdd(call[1].self.principal, call[1].other.principal)
     ELSE pc = "raised"

----------------------------------------------------------------------------
(* Sources and plans as dictionary keys (Spec) *)

\* offered sources that differ in name or rate are different keys
DistinctOffersDiffer ==
  \A i, j \in 1..Len(sources) :
     (sources[i].name # sources[j].name \/ sources[i].rate # sources[j].rate)
        => ~SourceEq(sources[i], sources[j])

\* C18: sources that differ in name or rate are different keys, and every
\* (source, plan) pair the builder goes through keeps payment variables of
\* its own in the solved model
C18_OwnVariables ==
  pc = "solved" =>
     /\ DistinctOffersDiffer
     /\ Len(payment) = Len(Dicts(person, sources).PP)

----------------------------------------------------------------------------
(* The need and the offered sources (Spec) *)

\* the entries of result[y - 1] whose source is one of the offered sources
FromOffered(y) ==
  SelectSeq(result[y], LAMBDA e : \E j \in 1..Len(sources) : sources[j] = e.src)

WholeOffered(y) ==
  SumInts([n \in 1..Len(FromOffered(y)) |-> RFloor(FromOffered(y)[n].amt)])

CentsOffered(y) ==
  RSumSeq([n \in 1..Len(FromOffered(y)) |-> Cents(FromOffered(y)[n].amt)])

\* C21: in a returned result, the amounts borrowed from the offered sources
\* alone sum to the need of every enrollment year, whatever the pre-existing
\* loans are; the two sides are compared by their whole dollars and their
\* fractions of a dollar
C21_OfferedAloneMeetNeed ==
  pc = "solved" =>
     \A y \in 1..person.graduation_time :
        RSub(CentsOffered(y), Cents(borrowed_amounts(person)[y]))
        = I(RFloor(borrowed_amounts(person)[y]) - WholeOffered(y))

----------------------------------------------------------------------------
(* Profiles with the defaults of person.py (Spec) *)

\* the profile has the default existing_loans of person.py and no
\* minimum_payment_only attribute
DefaultProfile ==
  /\ person.existing_loans = NoLoans
  /\ ~person.has_minimum_payment_only

\* C22: with a profile built from the defaults of person.py and a non-empty
\* list of sources, find_optimal_plan ends with a result or with the no-plan
\* signal, never with an exception
C22_DefaultsDoNotRaise ==
  DefaultProfile /\ sources # <<>> /\ pc # "start" => pc \in {"solved", "noplan"}

----------------------------------------------------------------------------
(* Properties of FundingSource.plan_options (SpecOptions) *)

\* C23: plan_options of a built-in source returns, without raising, a
\* non-empty list of plans each of which has the interest rate of the source
C23_OptionsAtSourceRate ==
  pc # "options" =>
     /\ pc = "listed"
     /\ result[1] # <<>>
     /\ \A pi \in 1..Len(result[1]) : result[1][pi].annual_rate = sources[1].rate

----------------------------------------------------------------------------
(* The pairs nothing is borrowed from (Spec) *)

\* the (source, plan) key of the i-th entry of plan_balance, whose payment
\* variables are payment[i]
PairOf(i) == Dicts(person, sources).PP[Dicts(person, sources).PK[i]].k

\* the result lists an amount borrowed under that key in some year
ListedPair(i) ==
  \E y \in 1..Len(result) : \E n \in 1..Len(result[y]) :
     KeyEq(Key(0, result[y][n].src, result[y][n].plan), PairOf(i))

\* plan_balance of a pair whose borrow variables are all 0
PrincipalOfNothing(i) ==
  RSumSeq([y \in 1..person.graduation_time |->
             principal(PairOf(i).src, Zero, y - 1, person)])

\* the balances of the pair over its term, from its principal and payments
BalancesOfNothing(i) ==
  BalancesTo(MonthlyRate(PairOf(i).plan),
             SubSeq(payment[i], 1, TermMonths(PairOf(i).plan)),
             <<PrincipalOfNothing(i)>>, TermMonths(PairOf(i).plan) + 1)

\* C24: in a returned solution a (source, plan) pair with nothing borrowed in
\* any year has aggregate principal 0, and payment 0 and balance 0 in every
\* month of its term
C24_UnusedPairsPayNothing ==
  pc = "solved" =>
     \A i \in 1..Len(payment) :
        ~ListedPair(i) =>
           /\ PrincipalOfNothing(i) = Zero
           /\ \A t \in 1..Len(payment[i]) : payment[i][t] = Zero
           /\ \A t \in 1..Len(BalancesOfNothing(i)) : BalancesOfNothing(i)[t] = Zero

\* a solution with a pair that is borrowed from and repaid, and one that is not
C24_OnePairUnused ==
  /\ pc = "solved"
  /\ \E i, j \in 1..Len(payment) :
        /\ ~ListedPair(i)
        /\ ListedPair(j)
        /\ payment[j][1] # Zero

====
